---- MODULE Spec2Model ----
(***************************************************************************)
(* Frame synchronisation and swapchain recreation of vulkan-examples-rs.   *)
(*                                                                         *)
(* One CPU thread runs the winit event loop (WindowApp::render_loop); each *)
(* MainEventsCleared event runs draw_frame, which is modelled call by call *)
(* (pc is the position of the thread inside draw_frame / recreate) because *)
(* the GPU completes submitted work concurrently with the CPU.             *)
(*                                                                         *)
(* Three applications share the loop and differ in draw_frame / recreate:  *)
(*   "triangle"       examples/triangle/main.rs                            *)
(*   "viking_room"    examples/viking_room/main.rs                         *)
(*   "texture_array"  examples/texture_array/main.rs + app/fixed_stuff.rs  *)
(***************************************************************************)
EXTENDS Integers, Naturals, Sequences, FiniteSets, TLC

\* ------------------------------------------------------------------------
\* Program constants and bounds
\* ------------------------------------------------------------------------

\* FixedVulkanStuff::MAX_FRAMES_IN_FLIGHT
MAX_FRAMES_IN_FLIGHT == 2

\* largest abstract window extent; 0 is a minimised window (width or height 0)
MaxExtent == 2

\* largest number of images the driver hands out for one swapchain
MaxImages == 3

\* the history counter of recreations per extent change saturates here
RecreateCap == 3
MaxBufferSize == 3
MaxImageCount == 5
MaxFamilies == 2
MaxTextures == 3

Slots == 0 .. (MAX_FRAMES_IN_FLIGHT - 1)

Extents == 0 .. MaxExtent

ImageCounts == 2 .. MaxImages

Variants == {"triangle", "viking_room", "texture_array"}

\* the extent of the window built by build_window / WindowBuilder (1800x1200)
InitialExtent == 1

\* u32::MAX, the image index returned with an abandoned frame
NoImage == 0 - 1

VARIABLES
    variant,                \* which application runs
    pc,                     \* position of the CPU thread
    rstep,                  \* position inside the recreate routine
    ret,                    \* where the running recreate returns to
    todo,                   \* recreate calls the present branch still makes
    current_frame,          \* self.current_frame
    window_resized,         \* self.window_resized
    window_size,            \* window.inner_size()
    surface_extent,         \* Surface.attributes.extent (cached)
    fence,                  \* in_flight_fence[s] is signaled
    inflight,               \* submissions of slot s the GPU has not completed
    swapchain,              \* SwapChainBatch.swapchain + images
    image_views,            \* SwapChainBatch.image_views
    depth_stencil,          \* depth image + view
    swapchain_framebuffers, \* swapchain_framebuffers
    acquire_result,         \* result of this frame's acquire_next_image
    present_result,         \* result of this frame's queue_present
    image_index,            \* image index this frame draws to
    frame_slot,             \* current_frame when this frame started
    resized_arg,            \* window_resized when this frame reached present
    trace,                  \* API calls made by the latest draw_frame, in order
    recreates_in_frame,     \* recreate calls made by the latest draw_frame
    recreate_count,         \* recreate calls since the extent last changed
    frame_args,             \* arguments of this frame's record, submit, present
    fixed,                  \* objects created once at startup, and the formats
    tstep,                  \* position inside the teardown, 0 before it starts
    teardown,               \* calls made by the teardown, in order
    buffer,                 \* one Buffer<T>: size_in_bytes, alignment, mapped_ptr
    buffer_call,            \* the last call made on the buffer and its outcome
    capabilities,           \* vk::SurfaceCapabilitiesKHR: min / max image count
    create_info,            \* vk::SwapchainCreateInfoKHR of the last create_swapchain
    family_properties,      \* the queue families of the physical device
    queue_call,             \* the last queue-family selection and its result
    textures,               \* the Textures: alive or dropped, and the Rc each holds
    rc                      \* the reference-counted handles (image views or samplers)

vars == << variant, pc, rstep, ret, todo, current_frame, window_resized,
           window_size, surface_extent, fence, inflight, swapchain,
           image_views, depth_stencil, swapchain_framebuffers,
           acquire_result, present_result, image_index, frame_slot,
           resized_arg, trace, recreates_in_frame, recreate_count,
           frame_args, fixed, tstep, teardown, buffer, buffer_call,
           capabilities, create_info, family_properties, queue_call,
           textures, rc >>

objects == << swapchain, image_views, depth_stencil, swapchain_framebuffers >>

frame_locals == << acquire_result, present_result, image_index, frame_slot,
                   resized_arg >>

\* FixedVulkanStuff::DEFAULT_SURFACE_FORMAT
DEFAULT_SURFACE_FORMAT == "B8G8R8A8_SRGB"

\* the candidates of format_helper::find_depth_format
DepthFormats == {"D32_SFLOAT", "D32_SFLOAT_S8_UINT", "D24_UNORM_S8_UINT"}

\* the GPU objects an application creates once and destroys at exit
FixedObjects == {"pipeline", "pipeline_layout", "descriptor_pool",
                 "descriptor_set_layout", "semaphores", "fences",
                 "command_pool", "render_pass"}

\* frame_args before the frame has recorded, submitted or presented
\* the arguments of the calls of the running frame, none made yet
NoArgs == [acquire |-> << >>, recorded |-> << >>, submit |-> << >>,
           present |-> << >>]

\* ------------------------------------------------------------------------
\* Helpers
\* ------------------------------------------------------------------------

Min(a, b) == IF a < b THEN a ELSE b

Log(calls) == trace' = trace \o calls

Has(call) == \E i \in 1 .. Len(trace) : trace[i] = call

Count(call) == Cardinality({i \in 1 .. Len(trace) : trace[i] = call})

\* index of the first occurrence of call in trace, 0 when absent
First(call) ==
    IF Has(call)
    THEN CHOOSE i \in 1 .. Len(trace) :
            /\ trace[i] = call
            /\ \A j \in 1 .. (i - 1) : trace[j] # call
    ELSE 0

\* the swapchain no longer matches the surface
Stale == swapchain.extent # window_size

\* what the presentation engine may answer to acquire_next_image
AcquireOutcomes(strict) ==
    IF strict /\ ~Stale
    THEN {"success", "fatal"}
    ELSE {"success", "suboptimal", "out_of_date", "fatal"}

\* what the presentation engine may answer to queue_present
PresentOutcomes(strict) ==
    IF strict /\ ~Stale
    THEN {"success", "fatal"}
    ELSE {"success", "suboptimal", "out_of_date", "fatal"}

\* ------------------------------------------------------------------------
\* Decisions taken by draw_frame
\* ------------------------------------------------------------------------

\* self.current_frame = (self.current_frame + 1) % MAX_FRAMES_IN_FLIGHT
NextFrame(cf) == (cf + 1) % MAX_FRAMES_IN_FLIGHT

\* draw_frame without the wait on the slot's fence
DrawFrameOrder_NoFenceWait(v) ==
    << "acquire", "reset_fence", "update_uniform_buffer", "record", "submit",
       "present" >>

\* draw_frame with the fence reset moved up next to the wait
DrawFrameOrder_ResetAfterWait(v) ==
    << "wait_fence", "reset_fence", "acquire", "update_uniform_buffer",
       "record", "submit", "present" >>

\* the straight-line order of the calls of draw_frame
DrawFrameOrder(v) ==
    IF v = "texture_array"
    THEN << "wait_fence", "acquire", "reset_fence", "update_uniform_buffer",
            "record", "submit", "present" >>
    ELSE << "wait_fence", "acquire", "update_uniform_buffer", "reset_fence",
            "record", "submit", "present" >>

\* the call that follows call p in draw_frame
NextPc(v, p) ==
    LET i == CHOOSE j \in 1 .. Len(DrawFrameOrder(v)) : DrawFrameOrder(v)[j] = p
    IN  DrawFrameOrder(v)[i + 1]

\* the fence draw_frame waits on: in_flight_fence of the current slot
FenceToWait(cf) == cf

\* an abandoned frame falling through to the end of draw_frame
ReturnPc_FallThrough(r) == "finish"

\* where draw_frame continues when recreate returns: `return` after an
\* out-of-date acquire, the end of the frame after present
ReturnPc(r) == IF r = "abandon" THEN "loop" ELSE "finish"

\* a render loop that draws whatever the size of the window
ShouldDraw_Always(size) == TRUE

\* if size.width > 0 && size.height > 0 { self.draw_frame() }
ShouldDraw(size) == size > 0

\* the match with the suboptimal flag handled like out-of-date
AfterAcquire_SuboptimalRecreates(v, r) ==
    CASE r \in {"out_of_date", "suboptimal"} -> "recreate"
      [] r = "success" -> NextPc(v, "acquire")
      [] OTHER -> "failed"

\* the match with out-of-date taken for a success: the frame goes on with the
\* placeholder image index
AfterAcquire_OutOfDateContinues(v, r) ==
    CASE r \in {"success", "suboptimal", "out_of_date"} -> NextPc(v, "acquire")
      [] OTHER -> "failed"

\* the match without its out-of-date arm: every Err is returned
AfterAcquire_OutOfDateIsError(v, r) ==
    CASE r \in {"success", "suboptimal"} -> NextPc(v, "acquire")
      [] OTHER -> "failed"

\* the match on the result of acquire_next_image: where the frame goes next
AfterAcquire(v, r) ==
    CASE r = "out_of_date" -> "recreate"
      [] r \in {"success", "suboptimal"} -> NextPc(v, "acquire")
      [] OTHER -> "failed"

\* the match on the result of queue_present: Err(OUT_OF_DATE) | Ok(true)
NeedRecreate(r) == r \in {"out_of_date", "suboptimal"}

\* a present error swallowed by the match instead of being returned
PresentFatal_Ignored(r) == FALSE

\* the match on the result of queue_present: every other Err is fatal
PresentFatal(r) == r \notin {"success", "suboptimal", "out_of_date"}

\* one recreate for the stale swapchain and another one for the resize flag
RecreateCalls_OnePerCause(need, resized) ==
    (IF need THEN 1 ELSE 0) + (IF resized THEN 1 ELSE 0)

\* the branch taken on the present result alone
RecreateCalls_OnlyOnNeed(need, resized) == IF need THEN 1 ELSE 0

\* if need_recreate || window_resized { recreate }: number of recreate calls
RecreateCalls(need, resized) == IF need \/ resized THEN 1 ELSE 0

\* window_resized right after the present branch: triangle and viking_room
\* clear it inside the if, texture_array passes it by value and keeps it
FlagAfterPresent(v, need, flag) ==
    IF v = "texture_array" THEN flag
    ELSE IF need \/ flag THEN FALSE ELSE flag

\* texture_array dropping the value frame_queue_submit_and_present returns
FlagAtFrameEnd_Kept(v, flag) == flag

\* window_resized when draw_frame returns after present: texture_array
\* stores the Ok(false) returned by frame_queue_submit_and_present
FlagAtFrameEnd(v, flag) == IF v = "texture_array" THEN FALSE ELSE flag

\* ------------------------------------------------------------------------
\* The recreate routines, as the sequence of their calls
\* ------------------------------------------------------------------------

\* recreate that rebuilds the swapchain and framebuffers but not the depth image
FixedVulkanStuff_recreate_NoDepth ==
    << "device_wait_idle", "refit_surface_attribute", "swapchain_recreate",
       "destroy_framebuffers", "create_framebuffers" >>

\* FixedVulkanStuff::recreate
FixedVulkanStuff_recreate ==
    << "device_wait_idle", "refit_surface_attribute", "swapchain_recreate",
       "depth_stencil_assign", "destroy_framebuffers", "create_framebuffers" >>

\* VulkanObjects::recreate_swapchain of the triangle example
VulkanObjects_recreate_swapchain ==
    << "device_wait_idle", "refit_surface_attribute", "destroy_framebuffers",
       "destroy_depth_view", "swapchain_recreate", "create_depth",
       "create_framebuffers" >>

\* FixedVulkanStuff::recreate_swapchain as called by viking_room: the lib of
\* that revision is not in the tree; device idle first, then teardown
\* back-to-front of creation, then rebuild
VikingRoom_recreate_swapchain ==
    << "device_wait_idle", "refit_surface_attribute", "destroy_framebuffers",
       "destroy_depth_view", "swapchain_recreate", "create_depth",
       "create_framebuffers" >>

RecreateSteps(v) ==
    CASE v = "texture_array" -> FixedVulkanStuff_recreate
      [] v = "triangle" -> VulkanObjects_recreate_swapchain
      [] OTHER -> VikingRoom_recreate_swapchain

Step == RecreateSteps(variant)[rstep]

InStep(kind) == pc = "recreate" /\ rstep <= Len(RecreateSteps(variant)) /\ Step = kind

\* the calls that destroy a swapchain-dependent object
Destroying == {"swapchain_recreate", "depth_stencil_assign",
               "destroy_framebuffers", "destroy_depth_view", "create_depth"}

\* ------------------------------------------------------------------------
\* Construction of the swapchain-dependent objects
\* ------------------------------------------------------------------------

\* the surface format a re-query that takes the first format offered ends with
get_surface_attrs_format_FirstOffered(format) == "R8G8B8A8_UNORM"

\* get_surface_attrs: among the formats the surface offers, the one equal to
\* the requested format (Err when there is none)
get_surface_attrs_format(format) == format

\* format_helper::find_depth_format / DepthStencil::find_depth_format: the
\* first candidate the device supports, the same at every call on one device
find_depth_format(device_format) == device_format

\* a depth image that keeps the extent of the window at startup
DepthStencil_new_StartupExtent(extent) ==
    [alive |-> TRUE, extent |-> InitialExtent]

\* DepthStencil::new(extent, format, device): a depth image of that extent and
\* its view
DepthStencil_new(extent) == [alive |-> TRUE, extent |-> extent]

\* create_swapchain_image_and_views: n images, one view per image;
\* the swapchain handle `id`, its n images, and one view per image
create_swapchain_image_and_views(extent, n, id) ==
    << [alive |-> TRUE, extent |-> extent, n |-> n, id |-> id,
        images_of |-> id],
       [alive |-> TRUE, n |-> n, of |-> id] >>

\* the handle a newly created swapchain gets: another one than the old
NewHandle(id) == 1 - id

\* the calls inside create_swapchain_image_and_views that can return Err
FailurePoints ==
    {"create_swapchain", "get_swapchain_images", "create_image_view"}

\* each field assigned as soon as its value exists
SwapChainBatch_recreate_assign_FieldByField(old, new, failed_at) ==
    CASE failed_at = "none" -> new
      [] failed_at = "create_swapchain" -> old
      [] failed_at = "get_swapchain_images" ->
            << [new[1] EXCEPT !.n = old[1].n, !.images_of = old[1].images_of],
               old[2] >>
      [] OTHER -> << new[1], old[2] >>

\* (self.swapchain, self.images, self.image_views) =
\*     create_swapchain_image_and_views(..)?: all three fields are assigned
\* together, and none of them when a call inside returned Err
SwapChainBatch_recreate_assign(old, new, failed_at) ==
    IF failed_at = "none" THEN new ELSE old

\* one framebuffer per frame slot instead of one per image view
create_swapchain_frame_buffer_PerSlot(views, extent) ==
    [alive |-> TRUE, n |-> MAX_FRAMES_IN_FLIGHT, extent |-> extent]

\* create_swapchain_frame_buffer: one framebuffer per swapchain image view
create_swapchain_frame_buffer(views, extent) ==
    [alive |-> TRUE, n |-> views.n, extent |-> extent]

\* ------------------------------------------------------------------------
\* Buffer<T>: map_memory, unmap_memory, load_data
\* ------------------------------------------------------------------------

\* memory_requirements.alignment
Alignments == {1, 2}

\* Option<*mut c_void>: None
None == << >>

\* Buffer::mapped
mapped(b) == b.mapped_ptr # None

\* Buffer::new: a buffer of that size, not mapped
Buffer_new(size_in_bytes, alignment) ==
    [size_in_bytes |-> size_in_bytes, alignment |-> alignment,
     mapped_ptr |-> None]

\* map_memory without its first assertion: a mapped buffer is mapped again
map_memory_NoMappedAssert(b, offset, size_in_bytes, driver_ok) ==
    IF offset + size_in_bytes > b.size_in_bytes
    THEN [buffer |-> b, result |-> "panic"]
    ELSE IF ~driver_ok
    THEN [buffer |-> b, result |-> "err"]
    ELSE [buffer |-> [b EXCEPT !.mapped_ptr =
                         << [offset |-> offset, size |-> size_in_bytes] >>],
          result |-> "ok"]

\* Buffer::map_memory: the two assertions, then device.map_memory; the pointer
\* is stored only when the driver returned Ok
map_memory(b, offset, size_in_bytes, driver_ok) ==
    IF mapped(b)
    THEN [buffer |-> b, result |-> "panic"]
    ELSE IF offset + size_in_bytes > b.size_in_bytes
    THEN [buffer |-> b, result |-> "panic"]
    ELSE IF ~driver_ok
    THEN [buffer |-> b, result |-> "err"]
    ELSE [buffer |-> [b EXCEPT !.mapped_ptr =
                         << [offset |-> offset, size |-> size_in_bytes] >>],
          result |-> "ok"]

\* Buffer::map_memory_all
map_memory_all(b, driver_ok) == map_memory(b, 0, b.size_in_bytes, driver_ok)

\* Buffer::unmap_memory: the assertion, device.unmap_memory, mapped_ptr.take()
unmap_memory(b) ==
    IF ~mapped(b)
    THEN [buffer |-> b, result |-> "panic"]
    ELSE [buffer |-> [b EXCEPT !.mapped_ptr = None], result |-> "ok"]

\* Buffer::load_data: debug_assert on the alignment (debug builds only), the
\* assertion on the range, map_memory(offset, data_size)?, the copy,
\* unmap_memory
load_data(b, data_size, offset, driver_ok, debug_assertions) ==
    IF debug_assertions /\ offset % b.alignment # 0
    THEN [buffer |-> b, result |-> "panic"]
    ELSE IF data_size + offset > b.size_in_bytes
    THEN [buffer |-> b, result |-> "panic"]
    ELSE LET m == map_memory(b, offset, data_size, driver_ok)
         IN  IF m.result # "ok" THEN m ELSE unmap_memory(m.buffer)

\* no call made on the buffer yet
NoCall == [op |-> "new", result |-> "ok", before |-> None,
           last_change |-> "none", debug_assertions |-> FALSE]

\* ------------------------------------------------------------------------
\* create_swapchain: the image count asked for
\* ------------------------------------------------------------------------

\* the capability pairs a surface can report: at least one image, and a
\* maximum of 0 (no upper limit) or not below the minimum
Capabilities ==
    {c \in [min_image_count : 1 .. MaxImageCount,
            max_image_count : 0 .. MaxImageCount] :
        c.max_image_count = 0 \/ c.max_image_count >= c.min_image_count}

\* u32::min
u32_min(a, b) == IF a <= b THEN a ELSE b

\* capabilities.max_image_count.min(capabilities.min_image_count + 1)
min_image_count(caps) ==
    u32_min(caps.max_image_count, caps.min_image_count + 1)

\* the SwapchainCreateInfoKHR create_swapchain builds from the capabilities
create_swapchain(caps) ==
    [min_image_count |-> min_image_count(caps), capabilities |-> caps]

\* the capabilities of the surface the applications are modelled on
DefaultCapabilities == [min_image_count |-> 2, max_image_count |-> 3]

\* ------------------------------------------------------------------------
\* Queue family selection: QueueInfo::new, QueueFamilyIndices::from_surface
\* ------------------------------------------------------------------------

\* vk::QueueFlags of a queue family, as the set of the bits that are set (a
\* family has at least one)
QueueFlags == (SUBSET {"GRAPHICS", "TRANSFER"}) \ {{}}

\* one queue family: its flags and what get_physical_device_surface_support
\* answers for it (Ok(true), Ok(false) or Err)
Families == [queue_flags : QueueFlags, support_surface : {"yes", "no", "err"}]

\* the lists of queue families a physical device can report
FamilyLists ==
    UNION {[1 .. n -> Families] : n \in 0 .. MaxFamilies}

\* !(fp.queue_flags | vk::QueueFlags::GRAPHICS).is_empty()
is_graphic(fp) == (fp.queue_flags \cup {"GRAPHICS"}) # {}

\* Option<u32>
Some(x) == << x >>

\* the loop of QueueInfo::new and of QueueFamilyIndices::from_surface from
\* family i on (index i - 1 in the code): acc holds the indices found so
\* far; `?` on the support query returns Err, both found breaks
RECURSIVE scan_families(_, _, _)
scan_families(fps, i, acc) ==
    IF i > Len(fps) THEN acc
    ELSE LET a1 == IF is_graphic(fps[i])
                   THEN [acc EXCEPT !.graphic_family = Some(i - 1)]
                   ELSE acc
         IN  IF fps[i].support_surface = "err"
             THEN [a1 EXCEPT !.status = "err"]
             ELSE LET a2 == IF fps[i].support_surface = "yes"
                            THEN [a1 EXCEPT !.present_family = Some(i - 1)]
                            ELSE a1
                  IN  IF a2.graphic_family # None /\ a2.present_family # None
                      THEN a2
                      ELSE scan_families(fps, i + 1, a2)

\* QueueFamilyIndices::default()
NoFamilies == [status |-> "ok", graphic_family |-> None, present_family |-> None]

\* QueueFamilyIndices::from_surface
from_surface(fps) == scan_families(fps, 1, NoFamilies)

\* QueueInfo::new: the same loop, then Err(QueueFamilyNotSupported) unless
\* both indices were found
QueueInfo_new(fps) ==
    LET r == scan_families(fps, 1, NoFamilies)
    IN  IF r.status = "err" THEN r
        ELSE IF r.graphic_family # None /\ r.present_family # None THEN r
        ELSE [r EXCEPT !.status = "QueueFamilyNotSupported"]

\* the one graphics-and-present family the applications are modelled on
DefaultFamilies ==
    << [queue_flags |-> {"GRAPHICS", "TRANSFER"}, support_surface |-> "yes"] >>

\* no selection made yet
NoQueueCall == [op |-> "none", result |-> NoFamilies]

\* ------------------------------------------------------------------------
\* Texture: the image view / sampler held through an Rc
\* ------------------------------------------------------------------------

TextureIds == 1 .. MaxTextures

\* the handles (vk::ImageView or vk::Sampler) that can be created
Handles == {1, 2}

\* Texture::builder(..).build(): image_view: None, sampler: None
NewTexture == [live |-> TRUE, handle |-> None]

\* a handle not created yet
NoRc == [created |-> FALSE, caller |-> FALSE, destroyed |-> 0,
         last_release |-> "none", shared |-> 0]

\* the live Textures whose field holds an Rc of handle h
HoldersIn(txs, h) == {t \in TextureIds : txs[t].live /\ txs[t].handle = Some(h)}

Holders(h) == HoldersIn(textures, h)

\* Rc::strong_count: the Textures that hold the handle, and the Rc the
\* caller has not given away
strong_count(h) == Cardinality(Holders(h)) + (IF rc[h].caller THEN 1 ELSE 0)

\* if Rc::strong_count(view) == 1 { destroy }
drop_destroys(count) == count = 1

\* ------------------------------------------------------------------------
\* Initial state: after WindowApp::new
\* ------------------------------------------------------------------------

\* fences created without FenceCreateFlags::SIGNALED
CreateFence_Unsignaled(s) == FALSE

\* create_fence with FenceCreateFlags::SIGNALED: the fence starts signaled
CreateFence(s) == TRUE

\* the application after WindowApp::new
InitApp ==
    /\ variant \in Variants
    /\ pc = "loop"
    /\ rstep = 0
    /\ ret = "none"
    /\ todo = 0
    /\ current_frame = 0
    /\ window_resized = FALSE
    /\ window_size = InitialExtent
    /\ surface_extent = InitialExtent
    /\ fence = [s \in Slots |-> CreateFence(s)]
    /\ inflight = [s \in Slots |-> 0]
    /\ \E n \in ImageCounts :
          /\ swapchain = create_swapchain_image_and_views(InitialExtent, n, 0)[1]
          /\ image_views = create_swapchain_image_and_views(InitialExtent, n, 0)[2]
          /\ swapchain_framebuffers =
                create_swapchain_frame_buffer(
                    create_swapchain_image_and_views(InitialExtent, n, 0)[2],
                    InitialExtent)
    /\ depth_stencil = DepthStencil_new(InitialExtent)
    /\ acquire_result = "none"
    /\ present_result = "none"
    /\ image_index = NoImage
    /\ frame_slot = 0
    /\ resized_arg = FALSE
    /\ trace = << >>
    /\ recreates_in_frame = 0
    /\ recreate_count = 0
    /\ frame_args = NoArgs
    /\ \E f \in DepthFormats :
          fixed = [alive |-> FixedObjects,
                   command_buffers |-> Slots,
                   surface_format |-> DEFAULT_SURFACE_FORMAT,
                   depth_format |-> find_depth_format(f),
                   device_depth_format |-> f]
    /\ tstep = 0
    /\ teardown = << >>

Init ==
    /\ buffer = Buffer_new(MaxBufferSize, 1)
    /\ buffer_call = NoCall
    /\ capabilities = DefaultCapabilities
    /\ create_info = create_swapchain(DefaultCapabilities)
    /\ family_properties = DefaultFamilies
    /\ queue_call = NoQueueCall
    /\ textures = [t \in TextureIds |-> NewTexture]
    /\ rc = [h \in Handles |-> NoRc]
    /\ InitApp

\* a buffer of any size and alignment, in a debug or a release build
InitBuffer ==
    /\ \E size \in 1 .. MaxBufferSize, alignment \in Alignments :
          buffer = Buffer_new(size, alignment)
    /\ \E dbg \in BOOLEAN :
          buffer_call = [NoCall EXCEPT !.debug_assertions = dbg]
    /\ capabilities = DefaultCapabilities
    /\ create_info = create_swapchain(DefaultCapabilities)
    /\ family_properties = DefaultFamilies
    /\ queue_call = NoQueueCall
    /\ textures = [t \in TextureIds |-> NewTexture]
    /\ rc = [h \in Handles |-> NoRc]
    /\ InitApp

\* ------------------------------------------------------------------------
\* The event loop (WindowApp::render_loop)
\* ------------------------------------------------------------------------

\* Event::WindowEvent Resized(size) => self.on_window_resized(size)
OnWindowResized(size) ==
    /\ pc = "loop"
    /\ window_resized' = TRUE
    /\ window_size' = size
    /\ recreate_count' = IF size # window_size THEN 0 ELSE recreate_count
    /\ UNCHANGED << variant, textures, rc, family_properties, queue_call, capabilities, create_info, buffer, buffer_call, frame_args, fixed, tstep, teardown, pc, rstep, ret, todo, current_frame,
                    surface_extent, fence, inflight, objects, frame_locals,
                    trace, recreates_in_frame >>

\* Event::MainEventsCleared with size.width > 0 && size.height > 0:
\* draw_frame is entered
MainEventsCleared ==
    /\ pc = "loop"
    /\ ShouldDraw(window_size)
    /\ pc' = DrawFrameOrder(variant)[1]
    /\ frame_slot' = current_frame
    /\ acquire_result' = "none"
    /\ present_result' = "none"
    /\ image_index' = NoImage
    /\ resized_arg' = FALSE
    /\ trace' = << >>
    /\ frame_args' = NoArgs
    /\ recreates_in_frame' = 0
    /\ UNCHANGED << variant, textures, rc, family_properties, queue_call, capabilities, create_info, buffer, buffer_call, fixed, tstep, teardown, rstep, ret, todo, current_frame, window_resized,
                    window_size, surface_extent, fence, inflight, objects,
                    recreate_count >>

\* Event::MainEventsCleared while the window is minimised: nothing is drawn
MainEventsClearedMinimized ==
    /\ pc = "loop"
    /\ ~ShouldDraw(window_size)
    /\ UNCHANGED vars

\* ------------------------------------------------------------------------
\* The GPU
\* ------------------------------------------------------------------------

\* the GPU finishes a submission of slot s and signals the fence passed to
\* queue_submit
GpuComplete(s) ==
    /\ inflight[s] > 0
    /\ inflight' = [inflight EXCEPT ![s] = @ - 1]
    /\ fence' = [fence EXCEPT ![s] = TRUE]
    /\ UNCHANGED << variant, textures, rc, family_properties, queue_call, capabilities, create_info, buffer, buffer_call, frame_args, fixed, tstep, teardown, pc, rstep, ret, todo, current_frame,
                    window_resized, window_size, surface_extent, objects,
                    frame_locals, trace, recreates_in_frame, recreate_count >>

\* ------------------------------------------------------------------------
\* draw_frame
\* ------------------------------------------------------------------------

\* entering a recreate routine n times in a row, returning to where
EnterRecreate(where, n) ==
    /\ pc' = "recreate"
    /\ rstep' = 1
    /\ ret' = where
    /\ todo' = n
    /\ recreates_in_frame' = recreates_in_frame + 1
    /\ recreate_count' = Min(recreate_count + 1, RecreateCap)

\* wait_for_fences returning without the fence being signaled
\* acquire_next_image(swapchain, u64::MAX, image_available_semaphore,
\* Fence::null()): the semaphore the acquire signals
AcquireInfo(cf) == [signal_semaphore |-> << "image_available", cf >>]

\* the command buffer reset and recorded, and the framebuffer it renders to
RecordTarget_OtherSlot(cf, idx) ==
    [command_buffer |-> (cf + 1) % MAX_FRAMES_IN_FLIGHT, framebuffer |-> idx]

RecordTarget(cf, idx) == [command_buffer |-> cf, framebuffer |-> idx]

\* vk::SubmitInfo and the fence handed to queue_submit
SubmitInfo(cf) ==
    [wait_semaphore |-> << "image_available", cf >>,
     command_buffer |-> cf,
     signal_semaphore |-> << "render_finished", cf >>,
     fence |-> cf]

\* vk::PresentInfoKHR
PresentInfo_ImageOfSlot(cf, idx) ==
    [wait_semaphore |-> << "render_finished", cf >>, image_index |-> cf]

PresentInfo(cf, idx) ==
    [wait_semaphore |-> << "render_finished", cf >>, image_index |-> idx]

\* a submission that uses command buffer c has not completed
PendingOn(c) ==
    \E s \in Slots : inflight[s] > 0 /\ SubmitInfo(s).command_buffer = c

FrameWaitForFence_NoWait ==
    /\ pc = "wait_fence"
    /\ pc' = NextPc(variant, "wait_fence")
    /\ Log(<< "wait_for_fence" >>)
    /\ UNCHANGED << variant, textures, rc, family_properties, queue_call, capabilities, create_info, buffer, buffer_call, frame_args, fixed, tstep, teardown, rstep, ret, todo, current_frame, window_resized,
                    window_size, surface_extent, fence, inflight, objects,
                    frame_locals, recreates_in_frame, recreate_count >>

\* wait_for_fences(&[in_flight_fence], true, u64::MAX): blocks until signaled
FrameWaitForFence ==
    /\ pc = "wait_fence"
    /\ fence[FenceToWait(current_frame)]
    /\ pc' = NextPc(variant, "wait_fence")
    /\ Log(<< "wait_for_fence" >>)
    /\ UNCHANGED << variant, textures, rc, family_properties, queue_call, capabilities, create_info, buffer, buffer_call, frame_args, fixed, tstep, teardown, rstep, ret, todo, current_frame, window_resized,
                    window_size, surface_extent, fence, inflight, objects,
                    frame_locals, recreates_in_frame, recreate_count >>

\* acquire_next_image and the match on its result
FrameAcquireNextImage(strict) ==
    /\ pc = "acquire"
    /\ \E r \in AcquireOutcomes(strict) :
          /\ acquire_result' = r
          /\ frame_args' = [frame_args EXCEPT
                !.acquire = Append(@, AcquireInfo(current_frame))]
          /\ Log(<< "acquire" >>)
          /\ IF r \in {"success", "suboptimal"}
             THEN \E i \in 0 .. (swapchain.n - 1) : image_index' = i
             ELSE image_index' = NoImage
          /\ IF AfterAcquire(variant, r) = "recreate"
             THEN EnterRecreate("abandon", 1)
             ELSE /\ pc' = AfterAcquire(variant, r)
                  /\ UNCHANGED << rstep, ret, todo, recreates_in_frame,
                                  recreate_count >>
    /\ UNCHANGED << variant, textures, rc, family_properties, queue_call, capabilities, create_info, buffer, buffer_call, fixed, tstep, teardown, current_frame, window_resized, window_size,
                    surface_extent, fence, inflight, objects, present_result,
                    frame_slot, resized_arg >>

\* reset_fences(&[in_flight_fence])
FrameResetFence ==
    /\ pc = "reset_fence"
    /\ fence' = [fence EXCEPT ![current_frame] = FALSE]
    /\ pc' = NextPc(variant, "reset_fence")
    /\ Log(<< "reset_fence" >>)
    /\ UNCHANGED << variant, textures, rc, family_properties, queue_call, capabilities, create_info, buffer, buffer_call, frame_args, fixed, tstep, teardown, rstep, ret, todo, current_frame, window_resized,
                    window_size, surface_extent, inflight, objects,
                    frame_locals, recreates_in_frame, recreate_count >>

\* update_uniform_buffer(&self.camera, &self.uniform_buffers[current_frame])
UpdateUniformBuffer ==
    /\ pc = "update_uniform_buffer"
    /\ pc' = NextPc(variant, "update_uniform_buffer")
    /\ Log(<< "update_uniform_buffer" >>)
    /\ UNCHANGED << variant, textures, rc, family_properties, queue_call, capabilities, create_info, buffer, buffer_call, frame_args, fixed, tstep, teardown, rstep, ret, todo, current_frame, window_resized,
                    window_size, surface_extent, fence, inflight, objects,
                    frame_locals, recreates_in_frame, recreate_count >>

\* record_render_commands / record_command: the slot's command buffer is
\* reset and recorded
RecordRenderCommands ==
    /\ pc = "record"
    /\ pc' = NextPc(variant, "record")
    /\ frame_args' = [frame_args EXCEPT
          !.recorded = Append(@, RecordTarget(current_frame, image_index))]
    /\ Log(<< "record" >>)
    /\ UNCHANGED << variant, textures, rc, family_properties, queue_call, capabilities, create_info, buffer, buffer_call, fixed, tstep, teardown, rstep, ret, todo, current_frame, window_resized,
                    window_size, surface_extent, fence, inflight, objects,
                    frame_locals, recreates_in_frame, recreate_count >>

\* queue_submit(graphic_queue, &[submit_info], in_flight_fence)
FrameDrawQueueSubmit ==
    /\ pc = "submit"
    /\ inflight' = [inflight EXCEPT ![SubmitInfo(current_frame).fence] = @ + 1]
    /\ pc' = NextPc(variant, "submit")
    /\ frame_args' = [frame_args EXCEPT
          !.submit = Append(@, SubmitInfo(current_frame))]
    /\ Log(<< "submit" >>)
    /\ UNCHANGED << variant, textures, rc, family_properties, queue_call, capabilities, create_info, buffer, buffer_call, fixed, tstep, teardown, rstep, ret, todo, current_frame, window_resized,
                    window_size, surface_extent, fence, objects,
                    frame_locals, recreates_in_frame, recreate_count >>

\* queue_present, the match on its result and the recreate branch
FrameQueuePresent(strict) ==
    /\ pc = "present"
    /\ \E r \in PresentOutcomes(strict) :
          /\ present_result' = r
          /\ resized_arg' = window_resized
          /\ frame_args' = [frame_args EXCEPT
                !.present = Append(@, PresentInfo(current_frame, image_index))]
          /\ Log(<< "present" >>)
          /\ IF PresentFatal(r)
             THEN /\ pc' = "failed"
                  /\ UNCHANGED << rstep, ret, todo, window_resized,
                                  recreates_in_frame, recreate_count >>
             ELSE /\ window_resized' =
                        FlagAfterPresent(variant, NeedRecreate(r), window_resized)
                  /\ IF RecreateCalls(NeedRecreate(r), window_resized) > 0
                     THEN EnterRecreate("finish",
                              RecreateCalls(NeedRecreate(r), window_resized))
                     ELSE /\ pc' = "finish"
                          /\ UNCHANGED << rstep, ret, todo, recreates_in_frame,
                                          recreate_count >>
    /\ UNCHANGED << variant, textures, rc, family_properties, queue_call, capabilities, create_info, buffer, buffer_call, fixed, tstep, teardown, current_frame, window_size, surface_extent,
                    fence, inflight, objects, acquire_result, image_index,
                    frame_slot >>

\* the end of a frame that reached present: the flag returned by
\* frame_queue_submit_and_present is stored and the slot index advances
DrawFrameEnd ==
    /\ pc = "finish"
    /\ window_resized' = FlagAtFrameEnd(variant, window_resized)
    /\ current_frame' = NextFrame(current_frame)
    /\ pc' = "loop"
    /\ UNCHANGED << variant, textures, rc, family_properties, queue_call, capabilities, create_info, buffer, buffer_call, frame_args, fixed, tstep, teardown, rstep, ret, todo, window_size, surface_extent,
                    fence, inflight, objects, frame_locals, trace,
                    recreates_in_frame, recreate_count >>

\* ------------------------------------------------------------------------
\* recreate (FixedVulkanStuff::recreate, VulkanObjects::recreate_swapchain)
\* ------------------------------------------------------------------------

\* control after one call of the recreate routine has returned Ok
StepDone ==
    IF rstep < Len(RecreateSteps(variant))
    THEN /\ rstep' = rstep + 1
         /\ UNCHANGED << pc, ret, todo, recreates_in_frame, recreate_count >>
    ELSE IF todo > 1
    THEN /\ rstep' = 1
         /\ todo' = todo - 1
         /\ recreates_in_frame' = recreates_in_frame + 1
         /\ recreate_count' = Min(recreate_count + 1, RecreateCap)
         /\ UNCHANGED << pc, ret >>
    ELSE /\ pc' = ReturnPc(ret)
         /\ rstep' = 0
         /\ todo' = 0
         /\ UNCHANGED << ret, recreates_in_frame, recreate_count >>

\* a call of the recreate routine returned Err: `?` / unwrap() ends the frame
StepFail ==
    /\ pc' = "failed"
    /\ UNCHANGED << rstep, ret, todo, recreates_in_frame, recreate_count >>

\* recreate without the wait for the GPU
DeviceWaitIdle_NoWait ==
    /\ InStep("device_wait_idle")
    /\ Log(<< "device_wait_idle" >>)
    /\ StepDone
    /\ UNCHANGED << variant, textures, rc, family_properties, queue_call, capabilities, create_info, buffer, buffer_call, frame_args, fixed, tstep, teardown, current_frame, window_resized, window_size,
                    surface_extent, fence, inflight, objects, frame_locals >>

\* device.device_wait_idle(): returns once the GPU has no pending work
DeviceWaitIdle ==
    /\ InStep("device_wait_idle")
    /\ \A s \in Slots : inflight[s] = 0
    /\ Log(<< "device_wait_idle" >>)
    /\ StepDone
    /\ UNCHANGED << variant, textures, rc, family_properties, queue_call, capabilities, create_info, buffer, buffer_call, frame_args, fixed, tstep, teardown, current_frame, window_resized, window_size,
                    surface_extent, fence, inflight, objects, frame_locals >>

\* Surface::refit_surface_attribute: the cached extent is queried again
RefitSurfaceAttribute ==
    /\ InStep("refit_surface_attribute")
    /\ Log(<< "refit_surface_attribute" >>)
    /\ \E ok \in BOOLEAN :
          IF ok
          THEN /\ surface_extent' = window_size
               /\ fixed' = [fixed EXCEPT !.surface_format =
                                get_surface_attrs_format(@)]
               /\ StepDone
          ELSE UNCHANGED << surface_extent, fixed >> /\ StepFail
    /\ UNCHANGED << variant, textures, rc, family_properties, queue_call, capabilities, create_info, buffer, buffer_call, frame_args, tstep, teardown, current_frame, window_resized, window_size,
                    fence, inflight, objects, frame_locals >>

\* SwapChainBatch::recreate: dispose_gpu_resources, then the new swapchain,
\* images and views are assigned only if all of them were created
SwapChainBatchRecreate ==
    /\ InStep("swapchain_recreate")
    /\ \E failed_at \in FailurePoints \cup {"none"}, n \in ImageCounts :
          LET disposed == << [swapchain EXCEPT !.alive = FALSE],
                             [image_views EXCEPT !.alive = FALSE] >>
              created == create_swapchain_image_and_views(
                             surface_extent, n, NewHandle(swapchain.id))
              batch == SwapChainBatch_recreate_assign(disposed, created,
                                                      failed_at)
          IN  /\ swapchain' = batch[1]
              /\ image_views' = batch[2]
              /\ IF failed_at = "none"
                 THEN /\ Log(<< "destroy_image_views", "destroy_swapchain",
                                "create_swapchain", "create_image_views" >>)
                      /\ StepDone
                 ELSE /\ Log(<< "destroy_image_views", "destroy_swapchain" >>)
                      /\ StepFail
    /\ UNCHANGED << variant, textures, rc, family_properties, queue_call, capabilities, create_info, buffer, buffer_call, frame_args, fixed, tstep, teardown, current_frame, window_resized, window_size,
                    surface_extent, fence, inflight, depth_stencil,
                    swapchain_framebuffers, frame_locals >>

\* self.depth_stencil = DepthStencil::new(extent, ..)?: the new depth image is
\* built, then the old one is dropped by the assignment
DepthStencilAssign ==
    /\ InStep("depth_stencil_assign")
    /\ \E ok \in BOOLEAN :
          IF ok
          THEN /\ depth_stencil' = DepthStencil_new(surface_extent)
               /\ fixed' = [fixed EXCEPT !.depth_format = fixed.depth_format]
               /\ Log(<< "create_depth", "destroy_depth" >>)
               /\ StepDone
          ELSE /\ UNCHANGED << depth_stencil, fixed >>
               /\ Log(<< >>)
               /\ StepFail
    /\ UNCHANGED << variant, textures, rc, family_properties, queue_call, capabilities, create_info, buffer, buffer_call, frame_args, tstep, teardown, current_frame, window_resized, window_size,
                    surface_extent, fence, inflight, swapchain, image_views,
                    swapchain_framebuffers, frame_locals >>

\* device.destroy_image_view(self.depth_image_view, None)
DestroyDepthView ==
    /\ InStep("destroy_depth_view")
    /\ depth_stencil' = [depth_stencil EXCEPT !.alive = FALSE]
    /\ Log(<< "destroy_depth" >>)
    /\ StepDone
    /\ UNCHANGED << variant, textures, rc, family_properties, queue_call, capabilities, create_info, buffer, buffer_call, frame_args, fixed, tstep, teardown, current_frame, window_resized, window_size,
                    surface_extent, fence, inflight, swapchain, image_views,
                    swapchain_framebuffers, frame_locals >>

\* self.depth_buffer = ImageBuffer::new(..).unwrap() and its image view
CreateDepth ==
    /\ InStep("create_depth")
    /\ \E ok \in BOOLEAN :
          IF ok
          THEN /\ depth_stencil' = DepthStencil_new(surface_extent)
               /\ fixed' = [fixed EXCEPT !.depth_format =
                                find_depth_format(fixed.device_depth_format)]
               /\ Log(<< "create_depth" >>)
               /\ StepDone
          ELSE /\ UNCHANGED << depth_stencil, fixed >>
               /\ Log(<< >>)
               /\ StepFail
    /\ UNCHANGED << variant, textures, rc, family_properties, queue_call, capabilities, create_info, buffer, buffer_call, frame_args, tstep, teardown, current_frame, window_resized, window_size,
                    surface_extent, fence, inflight, swapchain, image_views,
                    swapchain_framebuffers, frame_locals >>

\* swapchain_framebuffers.iter().for_each(destroy_framebuffer)
DestroyFramebuffers ==
    /\ InStep("destroy_framebuffers")
    /\ swapchain_framebuffers' = [swapchain_framebuffers EXCEPT !.alive = FALSE]
    /\ Log(<< "destroy_framebuffers" >>)
    /\ StepDone
    /\ UNCHANGED << variant, textures, rc, family_properties, queue_call, capabilities, create_info, buffer, buffer_call, frame_args, fixed, tstep, teardown, current_frame, window_resized, window_size,
                    surface_extent, fence, inflight, swapchain, image_views,
                    depth_stencil, frame_locals >>

\* self.swapchain_framebuffers = create_swapchain_frame_buffer(..)?
CreateFramebuffers ==
    /\ InStep("create_framebuffers")
    /\ \E ok \in BOOLEAN :
          IF ok
          THEN /\ swapchain_framebuffers' =
                     create_swapchain_frame_buffer(image_views, surface_extent)
               /\ Log(<< "create_framebuffers" >>)
               /\ StepDone
          ELSE /\ UNCHANGED swapchain_framebuffers
               /\ Log(<< >>)
               /\ StepFail
    /\ UNCHANGED << variant, textures, rc, family_properties, queue_call, capabilities, create_info, buffer, buffer_call, frame_args, fixed, tstep, teardown, current_frame, window_resized, window_size,
                    surface_extent, fence, inflight, swapchain, image_views,
                    depth_stencil, frame_locals >>

\* ------------------------------------------------------------------------
\* Exit: the end of run, and the Drop implementations
\* ------------------------------------------------------------------------

\* impl_drop_trait: Drop of an application built on FixedVulkanStuff
impl_drop_trait ==
    << "device_wait_idle", "pipeline", "pipeline_layout", "descriptor_pool",
       "descriptor_set_layout" >>

\* Drop for VikingRoomApp
VikingRoomApp_drop ==
    << "device_wait_idle", "pipeline", "pipeline_layout", "descriptor_pool",
       "descriptor_set_layout" >>

\* Drop for FixedVulkanStuff, then its fields in declaration order:
\* swapchain_batch (SwapChainBatch::dispose_gpu_resources), depth_stencil
FixedVulkanStuff_drop ==
    << "semaphores", "fences", "command_pool", "destroy_framebuffers",
       "render_pass", "destroy_image_views", "destroy_swapchain",
       "destroy_depth" >>

\* Drop for VulkanObjects of the triangle example, then its field
\* swapchain_batch
VulkanObjects_drop ==
    << "semaphores", "fences", "destroy_depth", "command_pool",
       "destroy_framebuffers", "pipeline", "descriptor_pool",
       "descriptor_set_layout", "pipeline_layout", "render_pass",
       "destroy_image_views", "destroy_swapchain" >>

\* DrawTriangleApp::run: render_loop, then device_wait_idle; a panic inside
\* draw_frame unwinds past that wait
DrawTriangleApp_exit(panicked) ==
    IF panicked THEN VulkanObjects_drop
    ELSE << "device_wait_idle" >> \o VulkanObjects_drop

\* texture_array without the wait at the head of its Drop
TextureArrayExample_exit_NoIdle(panicked) ==
    << "pipeline", "pipeline_layout", "descriptor_pool",
       "descriptor_set_layout" >> \o FixedVulkanStuff_drop

\* WindowApp::run of texture_array is render_loop alone; the wait is in Drop
TextureArrayExample_exit(panicked) == impl_drop_trait \o FixedVulkanStuff_drop

\* what an application calls from the end of its render loop to its exit
TeardownSteps(v, panicked) ==
    CASE v = "texture_array" -> TextureArrayExample_exit(panicked)
      [] v = "triangle" -> DrawTriangleApp_exit(panicked)
      [] OTHER -> VikingRoomApp_drop \o FixedVulkanStuff_drop

TeardownSeq == TeardownSteps(variant, pc = "failed")

InTeardown(kinds) ==
    /\ tstep >= 1
    /\ tstep <= Len(TeardownSeq)
    /\ TeardownSeq[tstep] \in kinds

\* the teardown calls that destroy a swapchain-dependent object
DependentDestroys == {"destroy_framebuffers", "destroy_image_views",
                      "destroy_swapchain", "destroy_depth"}

\* WindowEvent::CloseRequested / Escape: control_flow.set_exit(), the render
\* loop returns
CloseRequested ==
    /\ pc = "loop"
    /\ pc' = "exited"
    /\ tstep' = 1
    /\ UNCHANGED << variant, textures, rc, family_properties, queue_call, capabilities, create_info, buffer, buffer_call, frame_args, fixed, teardown, rstep, ret, todo,
                    current_frame, window_resized, window_size, surface_extent,
                    fence, inflight, objects, frame_locals, trace,
                    recreates_in_frame, recreate_count >>

\* a panic (unwrap / panic! in draw_frame) unwinds and drops the application
PanicUnwind ==
    /\ pc = "failed"
    /\ tstep = 0
    /\ tstep' = 1
    /\ UNCHANGED << variant, textures, rc, family_properties, queue_call, capabilities, create_info, buffer, buffer_call, frame_args, fixed, teardown, pc, rstep, ret, todo,
                    current_frame, window_resized, window_size, surface_extent,
                    fence, inflight, objects, frame_locals, trace,
                    recreates_in_frame, recreate_count >>

\* device_wait_idle at exit
TeardownWaitIdle ==
    /\ InTeardown({"device_wait_idle"})
    /\ \A s \in Slots : inflight[s] = 0
    /\ teardown' = Append(teardown, TeardownSeq[tstep])
    /\ tstep' = tstep + 1
    /\ UNCHANGED << variant, textures, rc, family_properties, queue_call, capabilities, create_info, buffer, buffer_call, frame_args, fixed, pc, rstep, ret, todo,
                    current_frame, window_resized, window_size, surface_extent,
                    fence, inflight, objects, frame_locals, trace,
                    recreates_in_frame, recreate_count >>

\* destroy_pipeline, destroy_semaphore, destroy_fence, ...: an object created
\* at startup is destroyed
TeardownDestroyFixed ==
    /\ InTeardown(FixedObjects)
    /\ fixed' = [fixed EXCEPT !.alive = @ \ {TeardownSeq[tstep]}]
    /\ teardown' = Append(teardown, TeardownSeq[tstep])
    /\ tstep' = tstep + 1
    /\ UNCHANGED << variant, textures, rc, family_properties, queue_call, capabilities, create_info, buffer, buffer_call, frame_args, pc, rstep, ret, todo,
                    current_frame, window_resized, window_size, surface_extent,
                    fence, inflight, objects, frame_locals, trace,
                    recreates_in_frame, recreate_count >>

\* destroy_framebuffer, destroy_image_view, destroy_swapchain, the drop of
\* the depth image: a swapchain-dependent object is destroyed
TeardownDestroyDependent ==
    /\ InTeardown(DependentDestroys)
    /\ LET k == TeardownSeq[tstep]
       IN  /\ swapchain_framebuffers' =
                 IF k = "destroy_framebuffers"
                 THEN [swapchain_framebuffers EXCEPT !.alive = FALSE]
                 ELSE swapchain_framebuffers
           /\ image_views' =
                 IF k = "destroy_image_views"
                 THEN [image_views EXCEPT !.alive = FALSE]
                 ELSE image_views
           /\ swapchain' =
                 IF k = "destroy_swapchain"
                 THEN [swapchain EXCEPT !.alive = FALSE]
                 ELSE swapchain
           /\ depth_stencil' =
                 IF k = "destroy_depth"
                 THEN [depth_stencil EXCEPT !.alive = FALSE]
                 ELSE depth_stencil
    /\ teardown' = Append(teardown, TeardownSeq[tstep])
    /\ tstep' = tstep + 1
    /\ UNCHANGED << variant, textures, rc, family_properties, queue_call, capabilities, create_info, buffer, buffer_call, frame_args, fixed, pc, rstep, ret, todo,
                    current_frame, window_resized, window_size, surface_extent,
                    fence, inflight, frame_locals, trace,
                    recreates_in_frame, recreate_count >>

Exit ==
    \/ CloseRequested
    \/ PanicUnwind
    \/ TeardownWaitIdle
    \/ TeardownDestroyFixed
    \/ TeardownDestroyDependent

\* ------------------------------------------------------------------------
\* Specifications
\* ------------------------------------------------------------------------

Recreate ==
    \/ DeviceWaitIdle
    \/ RefitSurfaceAttribute
    \/ SwapChainBatchRecreate
    \/ DepthStencilAssign
    \/ DestroyDepthView
    \/ CreateDepth
    \/ DestroyFramebuffers
    \/ CreateFramebuffers

NextWith(strict) ==
    \/ \E size \in Extents : OnWindowResized(size)
    \/ MainEventsCleared
    \/ MainEventsClearedMinimized
    \/ \E s \in Slots : GpuComplete(s)
    \/ FrameWaitForFence
    \/ FrameAcquireNextImage(strict)
    \/ FrameResetFence
    \/ UpdateUniformBuffer
    \/ RecordRenderCommands
    \/ FrameDrawQueueSubmit
    \/ FrameQueuePresent(strict)
    \/ DrawFrameEnd
    \/ Recreate
    \/ Exit

\* the presentation engine may report any result at any time
Next == NextWith(FALSE)

Spec == Init /\ [][Next]_vars

\* the presentation engine reports suboptimal / out-of-date only while the
\* swapchain extent differs from the window's
NextStrict == NextWith(TRUE)

SpecStrict == Init /\ [][NextStrict]_vars

\* the GPU completes every submission, and the CPU thread returns from
\* wait_for_fences once the fence is signaled
SpecLive ==
    /\ Init
    /\ [][Next]_vars
    /\ \A s \in Slots : WF_vars(GpuComplete(s))
    /\ WF_vars(FrameWaitForFence)

\* ------------------------------------------------------------------------
\* Calls on a Buffer
\* ------------------------------------------------------------------------

app_vars == << variant, pc, rstep, ret, todo, current_frame, window_resized,
               window_size, surface_extent, fence, inflight, objects,
               frame_locals, trace, recreates_in_frame, recreate_count,
               frame_args, fixed, tstep, teardown >>

\* the call op has returned r (a record of the buffer and the result)
Called(op, r) ==
    /\ buffer_call.result # "panic"
    /\ buffer' = r.buffer
    /\ buffer_call' =
          [buffer_call EXCEPT
              !.op = op,
              !.result = r.result,
              !.before = buffer.mapped_ptr,
              !.last_change =
                  IF r.result # "ok" THEN @
                  ELSE IF op \in {"map_memory", "map_memory_all"} THEN "map"
                  ELSE "unmap"]
    /\ UNCHANGED << app_vars, capabilities, create_info, family_properties,
                    queue_call, textures, rc >>

BufferMapMemory(offset, size_in_bytes, driver_ok) ==
    Called("map_memory", map_memory(buffer, offset, size_in_bytes, driver_ok))

BufferMapMemoryAll(driver_ok) ==
    Called("map_memory_all", map_memory_all(buffer, driver_ok))

BufferUnmapMemory ==
    Called("unmap_memory", unmap_memory(buffer))

BufferLoadData(data_size, offset, driver_ok) ==
    Called("load_data", load_data(buffer, data_size, offset, driver_ok,
                                  buffer_call.debug_assertions))

NextBuffer ==
    \/ \E offset \in 0 .. MaxBufferSize, size \in 0 .. MaxBufferSize,
          driver_ok \in BOOLEAN : BufferMapMemory(offset, size, driver_ok)
    \/ \E driver_ok \in BOOLEAN : BufferMapMemoryAll(driver_ok)
    \/ BufferUnmapMemory
    \/ \E data_size \in 0 .. MaxBufferSize, offset \in 0 .. MaxBufferSize,
          driver_ok \in BOOLEAN : BufferLoadData(data_size, offset, driver_ok)

SpecBuffer == InitBuffer /\ [][NextBuffer]_vars

\* ------------------------------------------------------------------------
\* The image count of a swapchain
\* ------------------------------------------------------------------------

\* SwapChainBatch::new on a surface with any capabilities
InitSwapchain ==
    /\ buffer = Buffer_new(MaxBufferSize, 1)
    /\ buffer_call = NoCall
    /\ capabilities \in Capabilities
    /\ create_info = create_swapchain(capabilities)
    /\ family_properties = DefaultFamilies
    /\ queue_call = NoQueueCall
    /\ textures = [t \in TextureIds |-> NewTexture]
    /\ rc = [h \in Handles |-> NoRc]
    /\ InitApp

\* get_physical_device_surface_capabilities (get_surface_attrs): the surface
\* reports its capabilities again
QueryCapabilities(caps) ==
    /\ capabilities' = caps
    /\ UNCHANGED << app_vars, buffer, buffer_call, create_info,
                    family_properties, queue_call, textures, rc >>

\* create_swapchain with the capabilities the surface has cached
CreateSwapchain ==
    /\ create_info' = create_swapchain(capabilities)
    /\ UNCHANGED << app_vars, buffer, buffer_call, capabilities,
                    family_properties, queue_call, textures, rc >>

NextSwapchain ==
    \/ \E caps \in Capabilities : QueryCapabilities(caps)
    \/ CreateSwapchain

SpecSwapchain == InitSwapchain /\ [][NextSwapchain]_vars

\* ------------------------------------------------------------------------
\* Queue family selection on any physical device
\* ------------------------------------------------------------------------

\* a physical device with any list of queue families
InitQueue ==
    /\ buffer = Buffer_new(MaxBufferSize, 1)
    /\ buffer_call = NoCall
    /\ capabilities = DefaultCapabilities
    /\ create_info = create_swapchain(DefaultCapabilities)
    /\ family_properties \in FamilyLists
    /\ queue_call = NoQueueCall
    /\ textures = [t \in TextureIds |-> NewTexture]
    /\ rc = [h \in Handles |-> NoRc]
    /\ InitApp

\* QueueInfo::new(surface)
QueueInfoNew ==
    /\ queue_call' = [op |-> "QueueInfo::new",
                      result |-> QueueInfo_new(family_properties)]
    /\ UNCHANGED << app_vars, buffer, buffer_call, capabilities, create_info,
                    family_properties, textures, rc >>

\* QueueFamilyIndices::from_surface(surface)
QueueFamilyIndicesFromSurface ==
    /\ queue_call' = [op |-> "QueueFamilyIndices::from_surface",
                      result |-> from_surface(family_properties)]
    /\ UNCHANGED << app_vars, buffer, buffer_call, capabilities, create_info,
                    family_properties, textures, rc >>

NextQueue ==
    \/ QueueInfoNew
    \/ QueueFamilyIndicesFromSurface

SpecQueue == InitQueue /\ [][NextQueue]_vars

\* ------------------------------------------------------------------------
\* Textures sharing an image view or a sampler
\* ------------------------------------------------------------------------

other_vars == << app_vars, buffer, buffer_call, capabilities, create_info,
                 family_properties, queue_call >>

\* the rc table after Texture t, holding what it holds in txs, gave up its
\* Rc in the way `how` ("drop" or "replace"); txs2 is the Textures after that
Released(table, txs, txs2, t, how) ==
    IF txs[t].handle = None THEN table
    ELSE LET h == txs[t].handle[1]
         IN  IF txs2[t].live /\ txs2[t].handle = Some(h) THEN table
             ELSE [table EXCEPT ![h].last_release = how]

\* the rc table with the number of Textures sharing h brought up to date
Noted(table, txs2, h) ==
    [table EXCEPT ![h].shared =
        IF Cardinality(HoldersIn(txs2, h)) > @
        THEN Cardinality(HoldersIn(txs2, h)) ELSE @]

\* Rc::new(create_sampler(..)) / Rc::new(image_view): the caller holds the
\* only Rc of a new handle
RcNew(h) ==
    /\ ~rc[h].created
    /\ rc' = [rc EXCEPT ![h].created = TRUE, ![h].caller = TRUE]
    /\ UNCHANGED << other_vars, textures >>

\* Texture::set_sampler / set_image_view with a clone of the caller's Rc
\* (moved is FALSE) or with the caller's Rc itself (moved is TRUE): the field
\* is overwritten, the Rc it held is dropped
SetHandle(t, h, moved) ==
    /\ textures[t].live
    /\ rc[h].caller
    /\ LET txs2 == [textures EXCEPT ![t].handle = Some(h)]
           r1 == Released(rc, textures, txs2, t, "replace")
           r2 == Noted(r1, txs2, h)
       IN  /\ textures' = txs2
           /\ rc' = [r2 EXCEPT ![h].caller = ~moved]
    /\ UNCHANGED other_vars

\* Texture::spawn_sampler / spawn_image_view: a new handle, held by this
\* Texture alone
SpawnHandle(t, h) ==
    /\ textures[t].live
    /\ ~rc[h].created
    /\ LET txs2 == [textures EXCEPT ![t].handle = Some(h)]
           r1 == Released(rc, textures, txs2, t, "replace")
           r2 == Noted(r1, txs2, h)
       IN  /\ textures' = txs2
           /\ rc' = [r2 EXCEPT ![h].created = TRUE]
    /\ UNCHANGED other_vars

\* the caller's own Rc goes out of scope
CallerDrop(h) ==
    /\ rc[h].caller
    /\ rc' = [rc EXCEPT ![h].caller = FALSE]
    /\ UNCHANGED << other_vars, textures >>

\* Drop for Texture: the handle is destroyed if this Rc is the last one, then
\* the field is dropped
DropTexture(t) ==
    /\ textures[t].live
    /\ LET txs2 == [textures EXCEPT ![t].live = FALSE]
           r1 == IF textures[t].handle # None
                    /\ drop_destroys(strong_count(textures[t].handle[1]))
                 THEN [rc EXCEPT ![textures[t].handle[1]].destroyed =
                          IF @ < 2 THEN @ + 1 ELSE @]
                 ELSE rc
       IN  /\ textures' = txs2
           /\ rc' = Released(r1, textures, txs2, t, "drop")
    /\ UNCHANGED other_vars

NextTexture ==
    \/ \E h \in Handles : RcNew(h)
    \/ \E t \in TextureIds, h \in Handles, moved \in BOOLEAN :
          SetHandle(t, h, moved)
    \/ \E t \in TextureIds, h \in Handles : SpawnHandle(t, h)
    \/ \E h \in Handles : CallerDrop(h)
    \/ \E t \in TextureIds : DropTexture(t)

\* Textures of the texture_array application, none holding a handle yet
InitTexture ==
    /\ Init
    /\ variant = "texture_array"

SpecTexture == InitTexture /\ [][NextTexture]_vars

\* ------------------------------------------------------------------------
\* Properties
\* ------------------------------------------------------------------------

RECURSIVE SumInflight(_)
SumInflight(S) ==
    IF S = {} THEN 0
    ELSE LET s == CHOOSE x \in S : TRUE
         IN  inflight[s] + SumInflight(S \ {s})

\* the calls of the frame between the fence wait and the submit
BeforeSubmit == {"acquire", "reset_fence", "update_uniform_buffer", "record",
                 "submit"}

\* C1: acquire_next_image of slot s is called only after the wait on slot
\* s's fence returned in the same frame; at that moment the fence is
\* signaled and the slot's previous submission has completed, and the frame
\* does not acquire, record or submit while that submission is pending.
C1_AcquireOnlyAfterFenceWait ==
    /\ pc = "acquire" =>
          /\ Has("wait_for_fence")
          /\ fence[current_frame]
    /\ pc \in BeforeSubmit => inflight[current_frame] = 0
    /\ Has("acquire") =>
          /\ Has("wait_for_fence")
          /\ First("wait_for_fence") < First("acquire")

\* slots used in the order 0, 1, 0: the third frame is about to acquire
\* while the frame of slot 1 is still on the GPU
C1_Witness ==
    /\ pc = "acquire"
    /\ current_frame = 0
    /\ inflight[1] = 1

\* C2: every slot has at most one submission the GPU has not completed, so
\* at most MAX_FRAMES_IN_FLIGHT frames are in flight.
C2_OneSubmissionPerSlot ==
    /\ \A s \in Slots : inflight[s] <= 1
    /\ SumInflight(Slots) <= MAX_FRAMES_IN_FLIGHT

\* both slots have work on the GPU and the CPU is blocked on a fence
C2_Witness ==
    /\ \A s \in Slots : inflight[s] = 1
    /\ pc = "wait_fence"

\* C3: a frame whose acquire reported out-of-date resets no fence, submits
\* nothing, presents nothing, recreates the swapchain, and leaves the slot
\* index where it was.
C3_OutOfDateAcquireAbandonsFrame ==
    acquire_result = "out_of_date" =>
        /\ ~Has("reset_fence")
        /\ ~Has("submit")
        /\ ~Has("present")
        /\ current_frame = frame_slot
        /\ recreates_in_frame = 1
        /\ pc \in {"recreate", "loop", "failed", "exited"}
        /\ pc = "loop" =>
              /\ Has("create_swapchain")
              /\ swapchain.alive
              /\ swapchain.extent = surface_extent

\* an abandoned frame of slot 1 has returned to the event loop
C3_Witness ==
    /\ pc = "loop"
    /\ acquire_result = "out_of_date"
    /\ frame_slot = 1
    /\ current_frame = 1

\* C4: the fence is reset once per frame, after a successful acquire and
\* before the submit, and never in a frame whose acquire failed.
C4_ResetAfterAcquireBeforeSubmit ==
    /\ Has("reset_fence") =>
          /\ acquire_result \in {"success", "suboptimal"}
          /\ First("acquire") < First("reset_fence")
          /\ Count("reset_fence") = 1
    /\ Has("submit") =>
          /\ Has("reset_fence")
          /\ First("reset_fence") < First("submit")
    /\ acquire_result \in {"out_of_date", "fatal"} => ~Has("reset_fence")
    /\ ~fence[current_frame] /\ pc \in {"acquire", "wait_fence"} =>
          inflight[current_frame] > 0

\* a frame has reset its fence and submitted
C4_Witness ==
    /\ pc = "present"
    /\ Has("reset_fence")
    /\ Has("submit")
    /\ ~fence[current_frame]

\* C5: whenever recreate is about to destroy a swapchain-dependent object,
\* its device-idle wait has returned and the GPU has no submission in flight.
C5_IdleBeforeDestroy ==
    (pc = "recreate" /\ Step \in Destroying) =>
        /\ \A s \in Slots : inflight[s] = 0
        /\ Count("device_wait_idle") = recreates_in_frame

\* recreate after present: the frame's own submission had to be waited for
C5_Witness ==
    /\ pc = "recreate"
    /\ Step \in Destroying
    /\ Has("submit")
    /\ ret = "finish"

\* C6: outside a running or failed recreate and before the teardown at exit,
\* there are as many image views
\* as swapchain images and as many framebuffers as image views.
C6_ViewImageFramebufferCounts ==
    (pc \notin {"recreate", "failed"} /\ tstep = 0) =>
        /\ image_views.n = swapchain.n
        /\ swapchain_framebuffers.n = image_views.n
        /\ swapchain.alive /\ image_views.alive /\ swapchain_framebuffers.alive

\* a recreate has completed and the frame has returned to the event loop
C6_Witness ==
    /\ pc = "loop"
    /\ Has("create_swapchain")
    /\ Has("create_framebuffers")
    /\ swapchain.n = MaxImages

\* the calls that rebuild the swapchain-dependent set
RebuildCalls == {"destroy_image_views", "destroy_swapchain", "create_swapchain",
                 "create_image_views", "destroy_depth", "create_depth",
                 "destroy_framebuffers", "create_framebuffers"}

\* C7: a frame whose present reported out-of-date has submitted before, has
\* rebuilt swapchain, image views, depth image and framebuffers after the
\* present, and hands the next frame the next slot.
C7_OutOfDatePresentRebuildsAndAdvances ==
    (pc = "loop" /\ present_result = "out_of_date") =>
        /\ Has("submit")
        /\ First("submit") < First("present")
        /\ \A c \in RebuildCalls : Has(c) /\ First("present") < First(c)
        /\ swapchain.alive /\ swapchain.extent = surface_extent
        /\ image_views.alive
        /\ depth_stencil.alive /\ depth_stencil.extent = surface_extent
        /\ swapchain_framebuffers.alive
        /\ swapchain_framebuffers.extent = surface_extent
        /\ current_frame = (frame_slot + 1) % MAX_FRAMES_IN_FLIGHT

\* present of slot 0 reported out-of-date; the loop continues at slot 1
C7_Witness ==
    /\ pc = "loop"
    /\ present_result = "out_of_date"
    /\ frame_slot = 0
    /\ current_frame = 1

\* C8: between two changes of the window extent the swapchain is recreated
\* at most once, however many resize notifications and frames there are.
C8_OneRecreationPerExtentChange == recreate_count <= 1

\* C9: a frame whose present reported out-of-date or suboptimal while the
\* resize flag was set calls recreate once, and ends with the flag clear.
C9_RecreateOnceWhenBothSet ==
    [][ (NeedRecreate(present_result) /\ resized_arg) =>
            /\ recreates_in_frame <= 1
            /\ (pc = "finish" /\ pc' = "loop") =>
                  /\ recreates_in_frame' = 1
                  /\ ~window_resized' ]_vars

\* such a frame has ended
C9_Witness ==
    /\ pc = "loop"
    /\ NeedRecreate(present_result)
    /\ resized_arg
    /\ recreates_in_frame = 1
    /\ ~window_resized

\* the results draw_frame handles without failing
Handled == {"none", "success", "suboptimal", "out_of_date"}

\* C10: any other result of acquire or present ends the frame at once: no
\* recreate, no retry, and no fence reset, submit or present after it.
C10_OtherResultsAreFatal ==
    /\ acquire_result \notin Handled =>
          /\ pc = "failed"
          /\ recreates_in_frame = 0
          /\ Count("acquire") = 1
          /\ trace[Len(trace)] = "acquire"
          /\ ~Has("reset_fence") /\ ~Has("submit") /\ ~Has("present")
    /\ present_result \notin Handled =>
          /\ pc = "failed"
          /\ recreates_in_frame = 0
          /\ Count("acquire") = 1
          /\ Count("reset_fence") = 1
          /\ Count("submit") = 1
          /\ Count("present") = 1
          /\ trace[Len(trace)] = "present"

\* a frame failed at present after it had submitted
C10_Witness ==
    /\ pc = "failed"
    /\ present_result = "fatal"
    /\ Has("submit")

\* C11: an out-of-date acquire, and an out-of-date or suboptimal present, are
\* answered by a recreate and never end the frame as an error themselves:
\* such a frame fails only inside a call of the recreate routine, and once
\* recreate has returned the frame returns normally.
C11_StalenessIsNotAnError ==
    /\ acquire_result = "out_of_date" =>
          /\ recreates_in_frame = 1
          /\ pc = "failed" => rstep > 0
          /\ pc \notin {"recreate", "failed"} =>
                /\ rstep = 0
                /\ image_index = NoImage
    /\ NeedRecreate(present_result) =>
          /\ recreates_in_frame = 1
          /\ pc = "failed" => rstep > 0
          /\ pc \notin {"recreate", "failed"} => rstep = 0

\* a frame whose present reported suboptimal has recreated and goes on
C11_Witness ==
    /\ pc = "finish"
    /\ present_result = "suboptimal"
    /\ recreates_in_frame = 1

FrameCallOrder ==
    << "wait_for_fence", "acquire", "reset_fence", "record", "submit",
       "present" >>

IsFrameCall(c) == \E i \in 1 .. Len(FrameCallOrder) : FrameCallOrder[i] = c

\* the calls of the running frame that are among the six
FrameCalls == SelectSeq(trace, IsFrameCall)

\* C13: the calls of a frame are always a prefix of wait-for-fence, acquire,
\* reset-fence, record, submit, present; a frame that reaches its end has made
\* all six, once each; the submit waits on the slot's image-available
\* semaphore (the one the acquire signals) and signals the slot's
\* render-finished semaphore and fence; the present waits on that
\* render-finished semaphore and presents the image index the acquire returned.
C13_FrameCallSequence ==
    /\ Len(FrameCalls) <= Len(FrameCallOrder)
    /\ FrameCalls = SubSeq(FrameCallOrder, 1, Len(FrameCalls))
    /\ pc = "finish" => FrameCalls = FrameCallOrder
    /\ (pc = "recreate" /\ ret = "finish") => FrameCalls = FrameCallOrder
    /\ Len(frame_args.submit) = Count("submit")
    /\ Len(frame_args.present) = Count("present")
    /\ \A i \in 1 .. Len(frame_args.submit) :
          /\ frame_args.acquire =
                << [signal_semaphore |-> frame_args.submit[i].wait_semaphore] >>
          /\ frame_args.submit[i] =
                [wait_semaphore |-> << "image_available", frame_slot >>,
                 command_buffer |-> frame_slot,
                 signal_semaphore |-> << "render_finished", frame_slot >>,
                 fence |-> frame_slot]
    /\ \A i \in 1 .. Len(frame_args.present) :
          /\ image_index # NoImage
          /\ frame_args.present[i] =
                [wait_semaphore |-> << "render_finished", frame_slot >>,
                 image_index |-> image_index]

\* a frame on slot 1 has presented image 2
C13_Witness ==
    /\ pc = "finish"
    /\ frame_slot = 1
    /\ Len(frame_args.present) = 1
    /\ frame_args.present[1].image_index = 2
    /\ acquire_result = "success"

\* in a log of calls, every call b comes after some call a
Precedes(log, a, b) ==
    \A j \in 1 .. Len(log) :
        log[j] = b => \E i \in 1 .. (j - 1) : log[i] = a

\* C14: in recreate (trace) and in the teardown at exit (teardown), the
\* framebuffers are destroyed before the image views and before the depth
\* view, and the image views before the swapchain.
C14_DependentsDestroyedFirst ==
    /\ Precedes(trace, "destroy_framebuffers", "destroy_image_views")
    /\ Precedes(trace, "destroy_framebuffers", "destroy_depth")
    /\ Precedes(trace, "destroy_image_views", "destroy_swapchain")
    /\ Precedes(teardown, "destroy_framebuffers", "destroy_image_views")
    /\ Precedes(teardown, "destroy_framebuffers", "destroy_depth")
    /\ Precedes(teardown, "destroy_image_views", "destroy_swapchain")

\* C15: outside a running or failed recreate and before the teardown at exit,
\* the depth image, the swapchain and the framebuffers all have the extent the
\* surface has cached.
C15_ExtentsAgree ==
    (pc \notin {"recreate", "failed"} /\ tstep = 0) =>
        /\ depth_stencil.alive
        /\ depth_stencil.extent = surface_extent
        /\ swapchain.extent = surface_extent
        /\ swapchain_framebuffers.extent = surface_extent

\* a recreate after a resize has succeeded and the frame loop is running
C15_Witness ==
    /\ pc = "loop"
    /\ tstep = 0
    /\ recreate_count > 0
    /\ surface_extent = MaxExtent
    /\ depth_stencil.extent = MaxExtent
    /\ swapchain_framebuffers.extent = MaxExtent

\* C16: a frame records one command buffer at most, the one of its slot, and
\* a frame that reaches its end has recorded it exactly once; the recording
\* comes after the fence wait and before the submit; from the recording to
\* the submit no submission that uses that command buffer is pending.
C16_RecordOnlyWhenIdle ==
    /\ Len(frame_args.recorded) = Count("record")
    /\ Count("record") <= 1
    /\ pc = "finish" => Count("record") = 1
    /\ \A i \in 1 .. Len(frame_args.recorded) :
          /\ frame_args.recorded[i].command_buffer = frame_slot
          /\ Has("wait_for_fence")
          /\ First("wait_for_fence") < First("record")
          /\ ~Has("submit") => ~PendingOn(frame_args.recorded[i].command_buffer)
    /\ Has("submit") =>
          /\ Has("record")
          /\ First("record") < First("submit")

\* slot 1 has just recorded its command buffer while the submission of slot 0
\* is still on the GPU
C16_Witness ==
    /\ pc = "submit"
    /\ frame_slot = 1
    /\ Len(frame_args.recorded) = 1
    /\ inflight[0] = 1
    /\ PendingOn(0)

\* C17: a call made by the recreate routine (the routine advances or ends)
\* leaves the fences and their signaled state, the pending submissions, the
\* slot index, the objects created at startup (semaphores, fences, command
\* pool, render pass, pipeline), the command buffers, the surface format and
\* the depth format as they were.
C17_RecreateKeepsTheRest ==
    [][(pc = "recreate" /\ (rstep' # rstep \/ pc' # pc)) =>
          /\ fence' = fence
          /\ inflight' = inflight
          /\ current_frame' = current_frame
          /\ fixed' = fixed
          /\ fixed.alive = FixedObjects
          /\ fixed.surface_format = DEFAULT_SURFACE_FORMAT]_vars

\* a frame on slot 1 has run a whole recreate on a device whose depth format
\* is the last candidate
C17_Witness ==
    /\ pc = "finish"
    /\ Has("create_framebuffers")
    /\ current_frame = 1
    /\ surface_extent = MaxExtent
    /\ fixed.depth_format = "D24_UNORM_S8_UINT"
    /\ fixed.alive = FixedObjects

\* C18: in every state, a failed recreate included, the batch stores as many
\* image views as images, and the images and the views are those of the
\* swapchain handle the batch stores.
C18_BatchIsConsistent ==
    /\ image_views.n = swapchain.n
    /\ swapchain.images_of = swapchain.id
    /\ image_views.of = swapchain.id

\* a SwapChainBatch::recreate has failed after an earlier one succeeded
C18_Witness ==
    /\ pc = "failed"
    /\ rstep > 0
    /\ Step = "swapchain_recreate"
    /\ ~swapchain.alive
    /\ swapchain.id = NewHandle(0)
    /\ image_views.of = NewHandle(0)

\* C19: the slot index is always below MAX_FRAMES_IN_FLIGHT and names an
\* allocated command buffer; from a successful acquire to the present the
\* image index is below the number of swapchain images and of framebuffers;
\* the framebuffer recorded into and the image handed to present are below
\* those counts when they are used.
C19_IndicesInRange ==
    /\ current_frame \in 0 .. (MAX_FRAMES_IN_FLIGHT - 1)
    /\ frame_slot \in 0 .. (MAX_FRAMES_IN_FLIGHT - 1)
    /\ \A i \in 1 .. Len(frame_args.recorded) :
          frame_args.recorded[i].command_buffer \in fixed.command_buffers
    /\ pc \in {"reset_fence", "update_uniform_buffer", "record", "submit",
               "present"} =>
          /\ swapchain.alive /\ swapchain_framebuffers.alive
          /\ image_index \in 0 .. (swapchain.n - 1)
          /\ image_index \in 0 .. (swapchain_framebuffers.n - 1)
    /\ pc \in {"submit", "present"} =>
          \A i \in 1 .. Len(frame_args.recorded) :
              frame_args.recorded[i].framebuffer
                  \in 0 .. (swapchain_framebuffers.n - 1)
    /\ (Len(trace) > 0 /\ trace[Len(trace)] = "present") =>
          \A i \in 1 .. Len(frame_args.present) :
              frame_args.present[i].image_index \in 0 .. (swapchain.n - 1)

\* the last image of the largest swapchain has just been presented from slot 1
C19_Witness ==
    /\ Len(trace) > 0
    /\ trace[Len(trace)] = "present"
    /\ frame_slot = 1
    /\ swapchain.n = MaxImages
    /\ Len(frame_args.present) = 1
    /\ frame_args.present[1].image_index = MaxImages - 1
    /\ frame_args.recorded[1].framebuffer = MaxImages - 1

\* C20: the buffer is mapped exactly when the last call that changed it was
\* a successful map; map on a mapped buffer and unmap on an unmapped one panic
\* and leave the buffer as it was; load_data returns (Ok or Err) only on a
\* buffer that was unmapped, and leaves such a buffer unmapped whatever
\* happens; a map the driver refuses leaves the buffer unmapped.
C20_MappedStateMachine ==
    /\ mapped(buffer) <=> buffer_call.last_change = "map"
    /\ (buffer_call.op \in {"map_memory", "map_memory_all"}
            /\ buffer_call.before # None) =>
          /\ buffer_call.result = "panic"
          /\ buffer.mapped_ptr = buffer_call.before
    /\ (buffer_call.op = "unmap_memory" /\ buffer_call.before = None) =>
          /\ buffer_call.result = "panic"
          /\ ~mapped(buffer)
    /\ (buffer_call.op = "unmap_memory" /\ buffer_call.before # None) =>
          /\ buffer_call.result = "ok"
          /\ ~mapped(buffer)
    /\ buffer_call.op = "load_data" =>
          /\ buffer_call.before # None =>
                /\ buffer_call.result = "panic"
                /\ buffer.mapped_ptr = buffer_call.before
          /\ buffer_call.before = None => ~mapped(buffer)
    /\ (buffer_call.op \in {"map_memory", "map_memory_all"}
            /\ buffer_call.before = None) =>
          (mapped(buffer) <=> buffer_call.result = "ok")

\* map_memory has been called on a buffer that a map_memory_all or an earlier
\* map_memory had mapped
C20_Witness ==
    /\ buffer_call.op = "map_memory"
    /\ buffer_call.before # None
    /\ buffer_call.result = "panic"
    /\ mapped(buffer)

\* C21: with every submission completing, a frame that waits on its slot's
\* fence always gets past the wait: on the first use of a slot, after a frame
\* abandoned on an out-of-date acquire, and after a submitted frame.
C21_FenceWaitReturns ==
    [](pc = "wait_fence" => <>(pc # "wait_fence"))

\* a frame on slot 1 has just been abandoned on an out-of-date acquire: the
\* slot index has not advanced and the slot's fence is still signaled, with
\* nothing of that slot in flight, so the next wait on it returns
C21_Witness ==
    /\ pc = "loop"
    /\ acquire_result = "out_of_date"
    /\ current_frame = 1
    /\ frame_slot = 1
    /\ fence[1]
    /\ inflight[1] = 0
    /\ ~Has("submit")

\* the object a destroy call is made on is one that still exists
HandleAlive(call) ==
    CASE call = "destroy_framebuffers" -> swapchain_framebuffers.alive
      [] call = "destroy_image_views" -> image_views.alive
      [] call = "destroy_swapchain" -> swapchain.alive
      [] OTHER -> depth_stencil.alive

\* C22: every destroy call made on the framebuffers, the image views, the
\* swapchain or the depth view, by a recreate or by the drop at exit, is made
\* on an object that has not been destroyed before, a drop that follows a
\* recreate that failed part-way included.
C22_NoDoubleDestroy ==
    [][/\ \A i \in (Len(trace) + 1) .. Len(trace') :
              (trace'[i] \in DependentDestroys /\ pc = "recreate") =>
                  HandleAlive(trace'[i])
       /\ \A i \in (Len(teardown) + 1) .. Len(teardown') :
              teardown'[i] \in DependentDestroys => HandleAlive(teardown'[i])
      ]_vars

\* C23: the window-resized flag does not change between the start of a frame
\* and its present; it goes from set to clear only in a frame that has made a
\* recreate; and a frame that reached present with the flag set ends with a
\* recreate made and the flag clear.
C23_ResizeIsNotLost ==
    [][/\ pc \notin {"loop", "present", "finish"} =>
              window_resized' = window_resized
       /\ (window_resized /\ ~window_resized') =>
              /\ recreates_in_frame' >= 1
              /\ pc \in {"present", "finish"}
       /\ (pc = "finish" /\ pc' = "loop" /\ resized_arg) =>
              /\ recreates_in_frame >= 1
              /\ Has("create_framebuffers")
              /\ ~window_resized'
      ]_vars

\* a frame of texture_array that found the flag set and a plain success from
\* present has ended: one recreate made, the flag clear
C23_Witness ==
    /\ variant = "texture_array"
    /\ pc = "loop"
    /\ Has("present")
    /\ resized_arg
    /\ present_result = "success"
    /\ recreates_in_frame = 1
    /\ ~window_resized

\* C24: after an acquire that returned success with the suboptimal flag the
\* frame holds the returned image index, goes on to reset its fence, submit
\* and present that image, and makes a recreate only if the present result or
\* the window-resized flag asks for one.
C24_SuboptimalAcquireIsSuccess ==
    acquire_result = "suboptimal" =>
        /\ image_index \in 0 .. (MaxImages - 1)
        /\ ~Has("present") =>
              /\ recreates_in_frame = 0
              /\ pc \in {"reset_fence", "update_uniform_buffer", "record",
                         "submit", "present"}
        /\ Has("present") =>
              /\ Has("reset_fence")
              /\ Has("submit")
              /\ frame_args.present[1].image_index = image_index
        /\ recreates_in_frame >= 1 =>
              (NeedRecreate(present_result) \/ resized_arg)

\* a frame whose acquire was suboptimal and whose present was a plain success
\* has ended without a recreate
C24_Witness ==
    /\ pc = "finish"
    /\ acquire_result = "suboptimal"
    /\ present_result = "success"
    /\ recreates_in_frame = 0
    /\ Has("submit")

\* the calls the variants are compared on; a recreate is seen as the
\* device_wait_idle it starts with
IsComparedCall(c) ==
    c \in {"wait_for_fence", "acquire", "reset_fence", "submit", "present",
           "device_wait_idle"}

ComparedCalls(log) == SelectSeq(log, IsComparedCall)

\* what a frame does, told from the outcomes of its acquire and present, the
\* flag and the slot it started with, and from nothing else
ExpectedFrame(acquire, present, flag, slot) ==
    IF acquire = "out_of_date"
    THEN [calls |-> << "wait_for_fence", "acquire", "device_wait_idle" >>,
          current_frame |-> slot,
          window_resized |-> flag]
    ELSE [calls |-> << "wait_for_fence", "acquire", "reset_fence", "submit",
                       "present" >>
                    \o (IF present \in {"out_of_date", "suboptimal"} \/ flag
                        THEN << "device_wait_idle" >> ELSE << >>),
          current_frame |-> (slot + 1) % MAX_FRAMES_IN_FLIGHT,
          window_resized |-> FALSE]

\* C25: whichever of the three applications runs, a frame that returns has
\* made the wait-fence, acquire, reset-fence, submit, present and recreate
\* calls, and ends with the slot index and the window-resized flag, that the
\* outcomes of its acquire and present, the flag and the slot it started with
\* determine.
C25_VariantsAgree ==
    [][(pc # "loop" /\ pc' = "loop") =>
          [calls |-> ComparedCalls(trace'),
           current_frame |-> current_frame',
           window_resized |-> window_resized']
          = ExpectedFrame(acquire_result',
                          present_result',
                          IF Has("present") THEN resized_arg' ELSE window_resized,
                          frame_slot')
      ]_vars

\* triangle has ended a frame on slot 1 whose present was out of date while
\* the window-resized flag was set
C25_Witness ==
    /\ variant = "triangle"
    /\ pc = "loop"
    /\ frame_slot = 1
    /\ current_frame = 0
    /\ present_result = "out_of_date"
    /\ resized_arg
    /\ ComparedCalls(trace) =
          << "wait_for_fence", "acquire", "reset_fence", "submit", "present",
             "device_wait_idle" >>

\* C26: the image count create_swapchain asks for is at least the minimum of
\* the capabilities it was built from, and at most their maximum when that
\* maximum is not 0.
C26_ImageCountWithinCapabilities ==
    /\ create_info.min_image_count >= create_info.capabilities.min_image_count
    /\ create_info.capabilities.max_image_count # 0 =>
          create_info.min_image_count <= create_info.capabilities.max_image_count

\* C27: the graphic family index a selection has found is the index of a
\* family with the GRAPHICS flag and the present family index that of a
\* family that supports the surface; on a device without a GRAPHICS family,
\* QueueInfo::new (its support queries having succeeded) returns
\* QueueFamilyNotSupported.
C27_ChosenFamiliesFit ==
    LET r == queue_call.result
    IN  /\ (r.status = "ok" /\ r.graphic_family # None) =>
              "GRAPHICS" \in family_properties[r.graphic_family[1] + 1].queue_flags
        /\ (r.status = "ok" /\ r.present_family # None) =>
              family_properties[r.present_family[1] + 1].support_surface = "yes"
        /\ (/\ queue_call.op = "QueueInfo::new"
            /\ r.status # "err"
            /\ \A i \in 1 .. Len(family_properties) :
                  "GRAPHICS" \notin family_properties[i].queue_flags) =>
              r.status = "QueueFamilyNotSupported"

C29_SharedHandleDestroyedOnce ==
    \A h \in Handles :
        /\ rc[h].destroyed <= 1
        /\ rc[h].destroyed = 1 => Holders(h) = {}
        /\ (rc[h].shared >= 2 /\ Holders(h) = {}
                /\ rc[h].last_release = "drop") =>
              rc[h].destroyed = 1

====
